---- MODULE Spec2Model ----
(***************************************************************************)
(* Model of the asynchronous job orchestration (Job, _run_stream,          *)
(* start_job, cancel_job, current_job, cancel_job_endpoint) and of the     *)
(* two-step login of src/app.py.                                           *)
(*                                                                         *)
(* Every thread of the program (a job's request handler and background     *)
(* driver, a cancel request, a current_job request, a login request) is a  *)
(* program counter; one action is one statement, or one run of statements  *)
(* that touches no state another thread can see.  The child processes are  *)
(* part of the model: they write lines, exit, and react to signals.        *)
(***************************************************************************)
EXTENDS Integers, Sequences, FiniteSets, TLC

\* ---------------------------------------------------------------- bounds
MaxRequests == 3      \* requests (start a job, cancel, current_job) in one run, each in its own thread
MaxJobs == 2          \* start_job requests among them
MaxLines == 1         \* lines one child process writes
MaxLogins == 3        \* /login requests in one run, each in its own thread
NumArgv == 1          \* distinct command lines a job can be started with
FewRequests == 2      \* requests in one run of the runs with more child output
MoreLines == 2        \* lines one child process writes in those runs
MoreArgv == 2         \* distinct command lines in those runs

JobIds == 1..MaxJobs
Cancellers == 1..MaxRequests
Pollers == 1..MaxRequests
LoginReqs == 1..MaxLogins

\* Python's None for an Optional[int] / Optional[str]; a present value x is <<x>>.
None == <<>>
Some(x) == <<x>>

\* signal numbers behind Popen.terminate() and Popen.kill(): a child ended by
\* signal n has returncode -n.
SIGTERM == 15
SIGKILL == 9

Terminal == {"finished", "error", "canceled"}

VARIABLES
    jobs,            \* jobs: job_id -> Job (status, output, rc, proc)
    current_job_id,  \* _current_job_id; None or <<job_id>>
    run,             \* per job: position of start_job / _run_stream, its args, its local rc
    procs,           \* per job: the child process behind job.proc
    cancel,          \* per cancel request: position in cancel_job_endpoint / cancel_job
    poll,            \* per current_job request: position in current_job
    hist,            \* history (ghost) of what the requests returned
    quota,           \* what one run is made of: how many requests, how many lines per child
    login_children,  \* login_children: token -> pexpect child waiting for the 2FA code
    children,        \* the pexpect children spawned so far: open or closed, and what was sent
    session,         \* the caller's session: need_2fa, login_token
    login            \* per /login request: position in login()

\* the command lines a job can be started with
Argvs == 1..quota.argvs

jobVars == <<jobs, current_job_id, run, procs, cancel, poll, hist, quota>>
loginVars == <<login_children, children, session, login>>

\* ---------------------------------------------------------------- Job
\* Job.__init__
NewJob == [status |-> "running", output |-> <<>>, rc |-> None, proc |-> FALSE]

\* Job.append: output += text, under job.lock
JobAppend(js, j, text) == [js EXCEPT ![j].output = Append(@, text)]

\* Job.finish with a slip in the default branch: a nonzero rc leaves "running"
JobFinishWrongStatus(js, j, rc, status) ==
    [js EXCEPT ![j].rc = Some(rc),
               ![j].status = IF status # None THEN status[1]
                             ELSE IF rc = 0 THEN "finished" ELSE "running"]

\* Job.finish: rc and status written together, under job.lock
JobFinish(js, j, rc, status) ==
    [js EXCEPT ![j].rc = Some(rc),
               ![j].status = IF status # None THEN status[1]
                             ELSE IF rc = 0 THEN "finished" ELSE "error"]

\* output entries: <<kind, n>>
EchoLine(args) == <<"cmd", args>>          \* "$ " + the quoted argv + "\n"
ChildLine(k) == <<"line", k>>              \* the k-th line the child wrote
RunError == <<"error", 0>>                 \* "\n[ERROR] {e}\n{traceback}\n"
CancelMarker == <<"cancel", 0>>            \* "\n[INFO] Cancel requested, terminating process...\n"
KillMarker == <<"kill", 0>>                \* "[INFO] Process did not terminate, killing...\n"
CancelError == <<"cancel_failed", 0>>      \* "[ERROR] Cancel failed: {e}\n"

\* exit codes a child returns when it ends by itself
ExitCodes == {0, 1}

NoProc == [state |-> "unborn", returncode |-> None, written |-> 0, pipe |-> <<>>,
           term |-> FALSE, kill |-> FALSE]
IdleRun == [pc |-> "none", args |-> 1, rc |-> None]
IdleCancel == [pc |-> "idle", job_id |-> None, explicit |-> FALSE, procExited |-> FALSE,
               ret |-> None]
IdlePoll == [pc |-> "idle", jid |-> None, i |-> 0, n |-> 0, res |-> "", after |-> None,
             live |-> FALSE]
\* a cancel request that has returned (ok, message): only ok is kept
Returned(ok) == [IdleCancel EXCEPT !.pc = "returned", !.ret = Some(ok)]

Registered == DOMAIN jobs

\* requests received so far
Requests ==
    Cardinality(Registered) + Cardinality({t \in Cancellers : cancel[t].pc # "idle"})
        + Cardinality({p \in Pollers : poll[p].pc # "idle"})

\* a start_job call is between registering its job and returning
Submitting(j) == run[j].pc \in {"registered", "pointed"}

\* the child ends: its stdout is closed, pending signals no longer matter
Exited(p, code) == [p EXCEPT !.state = "exited", !.returncode = Some(code),
                             !.term = FALSE, !.kill = FALSE]

\* ---------------------------------------------------------------- start_job
\* job_id = str(uuid.uuid4()); jobs[job_id] = Job()
StartRegister(args) ==
    /\ Requests < quota.requests
    /\ Cardinality(Registered) < MaxJobs
    /\ LET job_id == Cardinality(Registered) + 1 IN
        /\ jobs' = jobs @@ (job_id :> NewJob)
        /\ run' = [run EXCEPT ![job_id] = [pc |-> "registered", args |-> args, rc |-> None]]
        /\ hist' = [hist EXCEPT !.sequential = @ /\ \A k \in Registered : ~Submitting(k)]
    /\ UNCHANGED <<current_job_id, procs, cancel, poll, quota, loginVars>>

\* start_job that forgets to set the pointer
StartSkipsPointer(j) ==
    /\ run[j].pc = "registered"
    /\ run' = [run EXCEPT ![j].pc = "pointed"]
    /\ UNCHANGED <<jobs, current_job_id, procs, cancel, hist, poll, quota, loginVars>>

\* with _current_job_lock: _current_job_id = job_id
StartSetCurrent(j) ==
    /\ run[j].pc = "registered"
    /\ current_job_id' = Some(j)
    /\ run' = [run EXCEPT ![j].pc = "pointed"]
    /\ UNCHANGED <<jobs, procs, cancel, hist, poll, quota, loginVars>>

\* t.start(); return job_id
StartThread(j) ==
    /\ run[j].pc = "pointed"
    /\ run' = [run EXCEPT ![j].pc = "echo"]
    /\ hist' = [hist EXCEPT !.submitted = @ \cup {j}]
    /\ UNCHANGED <<jobs, current_job_id, procs, cancel, poll, quota, loginVars>>

\* ---------------------------------------------------------------- the child process
ProcWrite(j) ==
    /\ procs[j].state = "alive"
    /\ procs[j].written < quota.lines
    /\ procs' = [procs EXCEPT ![j].written = @ + 1,
                              ![j].pipe = Append(@, procs[j].written + 1)]
    /\ UNCHANGED <<jobs, current_job_id, run, cancel, hist, poll, quota, loginVars>>

ProcExit(j) ==
    /\ procs[j].state = "alive"
    /\ \E code \in ExitCodes : procs' = [procs EXCEPT ![j] = Exited(@, code)]
    /\ UNCHANGED <<jobs, current_job_id, run, cancel, hist, poll, quota, loginVars>>

\* the child dies of the graceful signal (a child that ignores it never takes this step)
ProcTerminated(j) ==
    /\ procs[j].state = "alive"
    /\ procs[j].term
    /\ procs' = [procs EXCEPT ![j] = Exited(@, -SIGTERM)]
    /\ UNCHANGED <<jobs, current_job_id, run, cancel, hist, poll, quota, loginVars>>

ProcKilled(j) ==
    /\ procs[j].state = "alive"
    /\ procs[j].kill
    /\ procs' = [procs EXCEPT ![j] = Exited(@, -SIGKILL)]
    /\ UNCHANGED <<jobs, current_job_id, run, cancel, hist, poll, quota, loginVars>>

\* ---------------------------------------------------------------- _run_stream
\* a driver that starts the command without echoing it
RunEchoNothing(j) ==
    /\ run[j].pc = "echo"
    /\ run' = [run EXCEPT ![j].pc = "spawn"]
    /\ UNCHANGED <<jobs, current_job_id, procs, cancel, hist, poll, quota, loginVars>>

\* job.append("$ " + ... + "\n")
RunEcho(j) ==
    /\ run[j].pc = "echo"
    /\ jobs' = JobAppend(jobs, j, EchoLine(run[j].args))
    /\ run' = [run EXCEPT ![j].pc = "spawn"]
    /\ UNCHANGED <<current_job_id, procs, cancel, hist, poll, quota, loginVars>>

\* proc = subprocess.Popen(...): the child starts, or Popen raises
RunSpawn(j) ==
    /\ run[j].pc = "spawn"
    /\ \/ /\ procs' = [procs EXCEPT ![j].state = "alive"]
          /\ run' = [run EXCEPT ![j].pc = "setproc"]
       \/ /\ run' = [run EXCEPT ![j].pc = "except"]
          /\ UNCHANGED procs
    /\ UNCHANGED <<jobs, current_job_id, cancel, hist, poll, quota, loginVars>>

\* job.proc = proc
RunSetProc(j) ==
    /\ run[j].pc = "setproc"
    /\ jobs' = [jobs EXCEPT ![j].proc = TRUE]
    /\ run' = [run EXCEPT ![j].pc = "stream"]
    /\ UNCHANGED <<current_job_id, procs, cancel, hist, poll, quota, loginVars>>

\* for line in proc.stdout: job.append(line) -- one line; a line that does not
\* decode as text raises (text=True)
RunStreamLine(j) ==
    /\ run[j].pc = "stream"
    /\ procs[j].pipe # <<>>
    /\ procs' = [procs EXCEPT ![j].pipe = Tail(@)]
    /\ \/ /\ jobs' = JobAppend(jobs, j, ChildLine(Head(procs[j].pipe)))
          /\ UNCHANGED run
       \/ /\ run' = [run EXCEPT ![j].pc = "except"]
          /\ UNCHANGED jobs
    /\ UNCHANGED <<current_job_id, cancel, hist, poll, quota, loginVars>>

\* a driver that waits for the exit without reading the pipe to its end
RunWaitUndrained(j) ==
    /\ run[j].pc = "stream"
    /\ procs[j].state = "exited"
    /\ run' = [run EXCEPT ![j].pc = "check", ![j].rc = procs[j].returncode]
    /\ UNCHANGED <<jobs, current_job_id, procs, cancel, hist, poll, quota, loginVars>>

\* the loop ends at end of file, when the child has exited and the pipe is
\* drained; rc = proc.wait() then returns the exit code at once
RunWait(j) ==
    /\ run[j].pc = "stream"
    /\ procs[j].pipe = <<>>
    /\ procs[j].state = "exited"
    /\ run' = [run EXCEPT ![j].pc = "check", ![j].rc = procs[j].returncode]
    /\ UNCHANGED <<jobs, current_job_id, procs, cancel, hist, poll, quota, loginVars>>

\* if job.status == "running":
RunCheck(j) ==
    /\ run[j].pc = "check"
    /\ run' = [run EXCEPT ![j].pc = IF jobs[j].status = "running" THEN "finish" ELSE "finally"]
    /\ UNCHANGED <<jobs, current_job_id, procs, cancel, hist, poll, quota, loginVars>>

\* job.finish(rc)
RunFinish(j) ==
    /\ run[j].pc = "finish"
    /\ jobs' = JobFinish(jobs, j, run[j].rc[1], None)
    /\ run' = [run EXCEPT ![j].pc = "finally"]
    /\ UNCHANGED <<current_job_id, procs, cancel, hist, poll, quota, loginVars>>

\* except Exception as e: job.append(f"\n[ERROR] ...")
RunExcept(j) ==
    /\ run[j].pc = "except"
    /\ jobs' = JobAppend(jobs, j, RunError)
    /\ run' = [run EXCEPT ![j].pc = "except_finish"]
    /\ UNCHANGED <<current_job_id, procs, cancel, hist, poll, quota, loginVars>>

\* job.finish(1), in the except branch
RunExceptFinish(j) ==
    /\ run[j].pc = "except_finish"
    /\ jobs' = JobFinish(jobs, j, 1, None)
    /\ run' = [run EXCEPT ![j].pc = "finally"]
    /\ UNCHANGED <<current_job_id, procs, cancel, hist, poll, quota, loginVars>>

\* a cleanup that clears the pointer without comparing it with job_id
ClearedAlways(cur, j) == None

\* the pointer after the driver's cleanup
ClearedPointer(cur, j) == IF cur = Some(j) THEN None ELSE cur

\* finally: with _current_job_lock: if _current_job_id == job_id: _current_job_id = None
\* a cleanup that leaves the pointer as it is
RunFinallyKeepsPointer(j) ==
    /\ run[j].pc = "finally"
    /\ run' = [run EXCEPT ![j].pc = "done"]
    /\ UNCHANGED <<jobs, current_job_id, procs, cancel, hist, poll, quota, loginVars>>

RunFinally(j) ==
    /\ run[j].pc = "finally"
    /\ current_job_id' = ClearedPointer(current_job_id, j)
    /\ run' = [run EXCEPT ![j].pc = "done"]
    /\ hist' = [hist EXCEPT !.kept = IF current_job_id \in {None, Some(j)} THEN @ ELSE @ \cup {j}]
    /\ UNCHANGED <<jobs, procs, cancel, poll, quota, loginVars>>

\* ---------------------------------------------------------------- cancel_job_endpoint, cancel_job
\* an endpoint that falls back to the oldest job instead of the pointer
EndpointOldest(req, cur) == IF req = None THEN (IF cur = None THEN None ELSE Some(1)) ELSE req

\* job_id = request.form.get("job_id") or None; without one, the pointer is read
\* under _current_job_lock.  req is the form value: None or <<job_id>>.
EndpointJobId(req, cur) == IF req = None THEN cur ELSE req

CancelEndpoint(t, req) ==
    /\ cancel[t].pc = "idle"
    /\ Requests < quota.requests
    /\ \A u \in Cancellers : u < t => cancel[u].pc # "idle"   \* numbered in arrival order
    /\ cancel' = [cancel EXCEPT ![t] = [pc |-> "guard",
                                        job_id |-> EndpointJobId(req, current_job_id),
                                        explicit |-> (req # None),
                                        procExited |-> FALSE, ret |-> None]]
    /\ UNCHANGED <<jobs, current_job_id, run, procs, hist, poll, quota, loginVars>>

\* job = jobs.get(job_id or ""); not job or job.status != "running" or not job.proc
\* a guard that lets a job without a process handle through
CancelRefusedIgnoringHandle(js, job_id) ==
    \/ job_id = None
    \/ job_id[1] \notin DOMAIN js
    \/ js[job_id[1]].status # "running"

CancelRefused(js, job_id) ==
    \/ job_id = None
    \/ job_id[1] \notin DOMAIN js
    \/ js[job_id[1]].status # "running"
    \/ ~js[job_id[1]].proc

\* the guard of cancel_job: return False, "No running job", or go on.  The three
\* reads are one step: status only leaves "running" and proc is only ever set, so
\* reading them one after the other lets through nothing that this step followed
\* by the other threads' steps does not.  procExited records whether the child
\* had exited when cancel_job was called.
CancelGuard(t) ==
    /\ cancel[t].pc = "guard"
    /\ LET id == cancel[t].job_id
           gone == id # None /\ id[1] \in JobIds /\ procs[id[1]].state = "exited"
       IN IF CancelRefused(jobs, id)
          THEN cancel' = [cancel EXCEPT ![t] = Returned(FALSE)]
          ELSE cancel' = [cancel EXCEPT ![t].pc = "marker", ![t].procExited = gone]
    /\ UNCHANGED <<jobs, current_job_id, run, procs, hist, poll, quota, loginVars>>

\* job.append("\n[INFO] Cancel requested, terminating process...\n")
CancelAppendMarker(t) ==
    /\ cancel[t].pc = "marker"
    /\ jobs' = JobAppend(jobs, cancel[t].job_id[1], CancelMarker)
    /\ cancel' = [cancel EXCEPT ![t].pc = "terminate"]
    /\ UNCHANGED <<current_job_id, run, procs, hist, poll, quota, loginVars>>

\* Popen.terminate() / Popen.kill(): the signal is sent unless the child was
\* already reaped
Signalled(p, sig) ==
    IF p.state # "alive" THEN p
    ELSE IF sig = SIGTERM THEN [p EXCEPT !.term = TRUE] ELSE [p EXCEPT !.kill = TRUE]

\* job.proc.terminate()
CancelTerminate(t) ==
    /\ cancel[t].pc = "terminate"
    /\ procs' = [procs EXCEPT ![cancel[t].job_id[1]] = Signalled(@, SIGTERM)]
    /\ cancel' = [cancel EXCEPT ![t].pc = "wait"]
    /\ UNCHANGED <<jobs, current_job_id, run, hist, poll, quota, loginVars>>

\* a cancel that goes on to the kill whether or not the child has exited
CancelWaitAlwaysKills(t) ==
    /\ cancel[t].pc = "wait"
    /\ cancel' = [cancel EXCEPT ![t].pc = "killmarker"]
    /\ UNCHANGED <<jobs, current_job_id, run, procs, hist, poll, quota, loginVars>>

\* job.proc.wait(timeout=5): returns if the child has exited, raises
\* TimeoutExpired if the grace period ends first
CancelWait(t) ==
    /\ cancel[t].pc = "wait"
    /\ cancel' = [cancel EXCEPT ![t].pc =
            IF procs[cancel[t].job_id[1]].state = "exited" THEN "finish" ELSE "killmarker"]
    /\ UNCHANGED <<jobs, current_job_id, run, procs, hist, poll, quota, loginVars>>

\* job.append("[INFO] Process did not terminate, killing...\n")
CancelAppendKill(t) ==
    /\ cancel[t].pc = "killmarker"
    /\ jobs' = JobAppend(jobs, cancel[t].job_id[1], KillMarker)
    /\ cancel' = [cancel EXCEPT ![t].pc = "kill"]
    /\ UNCHANGED <<current_job_id, run, procs, hist, poll, quota, loginVars>>

\* job.proc.kill()
CancelKill(t) ==
    /\ cancel[t].pc = "kill"
    /\ procs' = [procs EXCEPT ![cancel[t].job_id[1]] = Signalled(@, SIGKILL)]
    /\ cancel' = [cancel EXCEPT ![t].pc = "wait2"]
    /\ UNCHANGED <<jobs, current_job_id, run, hist, poll, quota, loginVars>>

\* job.proc.wait(timeout=5) after the kill: a TimeoutExpired here reaches the
\* outer except
CancelWait2(t) ==
    /\ cancel[t].pc = "wait2"
    /\ cancel' = [cancel EXCEPT ![t].pc =
            IF procs[cancel[t].job_id[1]].state = "exited" THEN "finish" ELSE "except"]
    /\ UNCHANGED <<jobs, current_job_id, run, procs, hist, poll, quota, loginVars>>

\* a cancel that records the exit code the killed process reported
CancelFinishExitCode(t) ==
    /\ cancel[t].pc = "finish"
    /\ jobs' = JobFinish(jobs, cancel[t].job_id[1],
                         procs[cancel[t].job_id[1]].returncode[1], Some("canceled"))
    /\ cancel' = [cancel EXCEPT ![t] = Returned(TRUE)]
    /\ hist' = [hist EXCEPT !.okCancel = @ \cup {cancel[t].job_id[1]},
                            !.okNoId = IF cancel[t].explicit THEN @
                                       ELSE @ \cup {cancel[t].job_id[1]}]
    /\ UNCHANGED <<current_job_id, run, procs, poll, quota, loginVars>>

\* job.finish(-9, status="canceled"); return True, "Canceled"
CancelFinish(t) ==
    /\ cancel[t].pc = "finish"
    /\ jobs' = JobFinish(jobs, cancel[t].job_id[1], -9, Some("canceled"))
    /\ cancel' = [cancel EXCEPT ![t] = Returned(TRUE)]
    /\ hist' = [hist EXCEPT !.okCancel = @ \cup {cancel[t].job_id[1]},
                            !.okNoId = IF cancel[t].explicit THEN @
                                       ELSE @ \cup {cancel[t].job_id[1]}]
    /\ UNCHANGED <<current_job_id, run, procs, poll, quota, loginVars>>

\* except Exception as e: job.append(f"[ERROR] Cancel failed: {e}\n"); return False, str(e)
CancelExcept(t) ==
    /\ cancel[t].pc = "except"
    /\ jobs' = JobAppend(jobs, cancel[t].job_id[1], CancelError)
    /\ cancel' = [cancel EXCEPT ![t] = Returned(FALSE)]
    /\ UNCHANGED <<current_job_id, run, procs, hist, poll, quota, loginVars>>

\* ---------------------------------------------------------------- current_job
\* the job whose start_job call was the last to begin, when that call has
\* returned and no start_job call ever overlapped another
JustSubmitted ==
    LET J == Cardinality(Registered) IN
        IF J > 0 /\ hist.sequential /\ ~Submitting(J) THEN Some(J) ELSE None

\* with _current_job_lock: jid = _current_job_id; an empty pointer starts the
\* scan "for k, j in jobs.items()"
CurrentRead(p) ==
    /\ poll[p].pc = "idle"
    /\ Requests < quota.requests
    /\ \A q \in Pollers : q < p => poll[q].pc # "idle"   \* numbered in arrival order
    /\ poll' = [poll EXCEPT ![p] =
            [pc |-> IF current_job_id = None THEN "scan" ELSE "lookup",
             jid |-> current_job_id, i |-> 1, n |-> Cardinality(Registered), res |-> "",
             after |-> JustSubmitted,
             live |-> (JustSubmitted # None /\ run[JustSubmitted[1]].pc # "done")]]
    /\ UNCHANGED <<jobs, current_job_id, run, procs, cancel, hist, quota, loginVars>>

\* a request that has returned: res is "job" (job_id jid), "idle" (job_id None)
\* or "error" (the handler raised)
PollReturned(q, res, jid) == [q EXCEPT !.pc = "returned", !.res = res, !.jid = jid,
                                       !.i = 0, !.n = 0]

\* one turn of the scan: the dict iterator raises RuntimeError if the registry
\* grew since the scan began; jobs are visited in insertion order, each status
\* read under the job's lock; the first running job ends the scan
CurrentScan(p) ==
    /\ poll[p].pc = "scan"
    /\ LET q == poll[p] IN
        poll' = [poll EXCEPT ![p] =
            IF Cardinality(Registered) # q.n THEN PollReturned(q, "error", None)
            ELSE IF q.i > q.n THEN [q EXCEPT !.pc = "lookup"]
            ELSE IF jobs[q.i].status = "running"
                 THEN [q EXCEPT !.pc = "lookup", !.jid = Some(q.i)]
                 ELSE [q EXCEPT !.i = q.i + 1]]
    /\ UNCHANGED <<jobs, current_job_id, run, procs, cancel, hist, quota, loginVars>>

\* if not jid or jid not in jobs: idle; else the snapshot of jobs[jid], under its lock
CurrentLookup(p) ==
    /\ poll[p].pc = "lookup"
    /\ LET q == poll[p] IN
        poll' = [poll EXCEPT ![p] =
            IF q.jid = None \/ q.jid[1] \notin Registered
            THEN PollReturned(q, "idle", None)
            ELSE PollReturned(q, "job", q.jid)]
    /\ UNCHANGED <<jobs, current_job_id, run, procs, cancel, hist, quota, loginVars>>

\* what current_job reports when nothing else runs during the call: the job
\* the pointer names, or with an empty pointer the first job in the registry
\* (in insertion order) that is running; None stands for the idle answer
CurrentJobReport(js, cur) ==
    LET running == {k \in DOMAIN js : js[k].status = "running"}
        jid == IF cur # None THEN cur
               ELSE IF running = {} THEN None
               ELSE Some(CHOOSE k \in running : \A m \in running : k <= m)
    IN IF jid = None \/ jid[1] \notin DOMAIN js THEN None ELSE jid

\* ---------------------------------------------------------------- login
IdleLogin == [pc |-> "idle", step |-> 0, token |-> None, child |-> None, sent |-> FALSE,
              ret |-> ""]

\* the request returns (flash + redirect); ret names the outcome
LoginReturned(l, ret) == [l EXCEPT !.pc = "returned", !.ret = ret]

\* child.sendline(text)
SendLine(c, text) == [c EXCEPT !.sent = Append(@, text)]

\* child.close(force=True), its own exception suppressed
Closed(c) == [c EXCEPT !.open = FALSE]

\* a second step that answers an unknown token by emptying the registry
LoginSecondResets(r, token) ==
    /\ login[r].pc = "idle"
    /\ \A q \in LoginReqs : q < r => login[q].pc # "idle"
    /\ login' = [login EXCEPT ![r] =
            IF token \notin DOMAIN login_children
            THEN LoginReturned([IdleLogin EXCEPT !.step = 2, !.token = Some(token)],
                               "SessionExpired")
            ELSE [IdleLogin EXCEPT !.pc = "send", !.step = 2, !.token = Some(token),
                                   !.child = Some(login_children[token])]]
    /\ login_children' = IF token \notin DOMAIN login_children THEN <<>>
                         ELSE login_children
    /\ UNCHANGED <<children, session>>
    /\ UNCHANGED jobVars

\* a request arrives with a login_token: child = login_children.get(token);
\* without an entry the session has expired
LoginSecond(r, token) ==
    /\ login[r].pc = "idle"
    /\ \A q \in LoginReqs : q < r => login[q].pc # "idle"   \* numbered in arrival order
    /\ login' = [login EXCEPT ![r] =
            IF token \notin DOMAIN login_children
            THEN LoginReturned([IdleLogin EXCEPT !.step = 2, !.token = Some(token)],
                               "SessionExpired")
            ELSE [IdleLogin EXCEPT !.pc = "send", !.step = 2, !.token = Some(token),
                                   !.child = Some(login_children[token])]]
    /\ UNCHANGED <<login_children, children, session>>
    /\ UNCHANGED jobVars

\* child.sendline(otp); a closed child raises
SecondSend(r) ==
    /\ login[r].pc = "send"
    /\ LET c == login[r].child[1] IN
        IF children[c].open
        THEN /\ children' = [children EXCEPT ![c] = SendLine(@, "otp")]
             /\ login' = [login EXCEPT ![r].pc = "expect", ![r].sent = TRUE]
        ELSE /\ login' = [login EXCEPT ![r].pc = "close", ![r].ret = "LoginError"]
             /\ UNCHANGED children
    /\ UNCHANGED <<login_children, session>>
    /\ UNCHANGED jobVars

\* child.expect(pexpect.EOF, timeout=240): end of output, or TIMEOUT (or any
\* other exception) caught by "except Exception"
SecondExpect(r) ==
    /\ login[r].pc = "expect"
    /\ \E ret \in {"Completed", "LoginError"} :
          /\ ret = "Completed" => children[login[r].child[1]].open
          /\ login' = [login EXCEPT ![r].pc = "close", ![r].ret = ret]
    /\ UNCHANGED <<login_children, children, session>>
    /\ UNCHANGED jobVars

\* finally: child.close(force=True)
SecondClose(r) ==
    /\ login[r].pc = "close"
    /\ children' = [children EXCEPT ![login[r].child[1]] = Closed(@)]
    /\ login' = [login EXCEPT ![r].pc = "pop"]
    /\ UNCHANGED <<login_children, session>>
    /\ UNCHANGED jobVars

\* a pop that leaves the key in place
PopNothing(d, key) == d

\* dict.pop(key, None)
Pop(d, key) == [k \in DOMAIN d \ {key} |-> d[k]]

\* finally: login_children.pop(token, None); session.pop("login_token", None)
SecondPop(r) ==
    /\ login[r].pc = "pop"
    /\ login_children' = Pop(login_children, login[r].token[1])
    /\ session' = [session EXCEPT !.login_token = None]
    /\ login' = [login EXCEPT ![r] = LoginReturned(@, @.ret)]
    /\ UNCHANGED children
    /\ UNCHANGED jobVars

\* a request arrives without login_token: child = pexpect.spawn(cmd, ...), or
\* spawn raises
FirstSpawn(r) ==
    /\ login[r].pc = "idle"
    /\ \A q \in LoginReqs : q < r => login[q].pc # "idle"
    /\ \/ /\ children' = Append(children, [open |-> TRUE, sent |-> <<>>])
          /\ login' = [login EXCEPT ![r] = [IdleLogin EXCEPT !.pc = "username", !.step = 1,
                                                              !.child = Some(Len(children) + 1)]]
       \/ /\ login' = [login EXCEPT ![r] =
                    LoginReturned([IdleLogin EXCEPT !.step = 1], "LoginError")]
          /\ UNCHANGED children
    /\ UNCHANGED <<login_children, session>>
    /\ UNCHANGED jobVars

\* what child.expect(patterns, timeout) ends with: a pattern matched, TIMEOUT
\* raised, or another exception (EOF where no EOF pattern was given)
ExpectResults == {"match", "timeout", "exception"}
Failure(res) == IF res = "timeout" THEN "LoginTimeout" ELSE "LoginError"

\* child.expect([... username ...], timeout=120); child.sendline(username)
FirstUsername(r) ==
    /\ login[r].pc = "username"
    /\ \E res \in ExpectResults :
          IF res = "match"
          THEN /\ children' = [children EXCEPT ![login[r].child[1]] = SendLine(@, "username")]
               /\ login' = [login EXCEPT ![r].pc = "password"]
          ELSE /\ login' = [login EXCEPT ![r] = LoginReturned(@, Failure(res))]
               /\ UNCHANGED children
    /\ UNCHANGED <<login_children, session>>
    /\ UNCHANGED jobVars

\* child.expect([... password ...], timeout=120); child.sendline(password)
FirstPassword(r) ==
    /\ login[r].pc = "password"
    /\ \E res \in ExpectResults :
          IF res = "match"
          THEN /\ children' = [children EXCEPT ![login[r].child[1]] = SendLine(@, "password")]
               /\ login' = [login EXCEPT ![r].pc = "outcome"]
          ELSE /\ login' = [login EXCEPT ![r] = LoginReturned(@, Failure(res))]
               /\ UNCHANGED children
    /\ UNCHANGED <<login_children, session>>
    /\ UNCHANGED jobVars

\* idx = child.expect([five code prompts, pexpect.EOF], timeout=240) raised
FirstOutcomeFails(r) ==
    /\ login[r].pc = "outcome"
    /\ \E res \in ExpectResults \ {"match"} :
          login' = [login EXCEPT ![r] = LoginReturned(@, Failure(res))]
    /\ UNCHANGED <<login_children, children, session>>
    /\ UNCHANGED jobVars

\* a first step that reports success and leaves the process open
FirstCompletedLeftOpen(r) ==
    /\ login[r].pc = "outcome"
    /\ login' = [login EXCEPT ![r] = LoginReturned(@, "Completed")]
    /\ UNCHANGED <<login_children, children, session>>
    /\ UNCHANGED jobVars

\* idx == 5: logged in without a code; flash(child.before); child.close(force=True)
FirstCompleted(r) ==
    /\ login[r].pc = "outcome"
    /\ children' = [children EXCEPT ![login[r].child[1]] = Closed(@)]
    /\ login' = [login EXCEPT ![r] = LoginReturned(@, "Completed")]
    /\ UNCHANGED <<login_children, session>>
    /\ UNCHANGED jobVars

\* idx < 5: token = str(uuid.uuid4()); login_children[token] = child;
\* session["need_2fa"] = True; session["login_token"] = token.  The fresh token
\* is the number of the child it is made for.
FirstAwaitingCode(r) ==
    /\ login[r].pc = "outcome"
    /\ LET token == login[r].child[1] IN
        /\ login_children' = login_children @@ (token :> login[r].child[1])
        /\ session' = [need_2fa |-> TRUE, login_token |-> Some(token)]
        /\ login' = [login EXCEPT ![r] = LoginReturned([@ EXCEPT !.token = Some(token)],
                                                       "AwaitingCode")]
    /\ UNCHANGED children
    /\ UNCHANGED jobVars

\* ---------------------------------------------------------------- the system
Init ==
    /\ jobs = <<>>
    /\ current_job_id = None
    /\ run = [j \in JobIds |-> IdleRun]
    /\ procs = [j \in JobIds |-> NoProc]
    /\ cancel = [t \in Cancellers |-> IdleCancel]
    /\ poll = [p \in Pollers |-> IdlePoll]
    /\ hist = [submitted |-> {}, okCancel |-> {}, okNoId |-> {}, kept |-> {},
               sequential |-> TRUE]
    /\ quota = [requests |-> MaxRequests, lines |-> MaxLines, argvs |-> NumArgv]
    /\ login_children = <<>>
    /\ children = <<>>
    /\ session = [need_2fa |-> FALSE, login_token |-> None]
    /\ login = [r \in LoginReqs |-> IdleLogin]

Submit ==
    \/ \E args \in Argvs : StartRegister(args)
    \/ \E j \in JobIds : StartSetCurrent(j) \/ StartThread(j)

Driver ==
    \E j \in JobIds :
        \/ RunEcho(j) \/ RunSpawn(j) \/ RunSetProc(j)
        \/ RunStreamLine(j) \/ RunWait(j)
        \/ RunCheck(j) \/ RunFinish(j)
        \/ RunExcept(j) \/ RunExceptFinish(j) \/ RunFinally(j)

Child ==
    \E j \in JobIds : ProcWrite(j) \/ ProcExit(j) \/ ProcTerminated(j) \/ ProcKilled(j)

Canceller ==
    \E t \in Cancellers :
        \/ \E req \in {None} \cup {Some(j) : j \in JobIds} : CancelEndpoint(t, req)
        \/ CancelGuard(t) \/ CancelAppendMarker(t) \/ CancelTerminate(t)
        \/ CancelWait(t) \/ CancelAppendKill(t) \/ CancelKill(t) \/ CancelWait2(t)
        \/ CancelFinish(t) \/ CancelExcept(t)

Poller ==
    \E p \in Pollers : CurrentRead(p) \/ CurrentScan(p) \/ CurrentLookup(p)

JobNext == Submit \/ Driver \/ Child \/ Canceller \/ Poller

\* the tokens a request can carry: those ever handed out, and one never handed out
Tokens == 1..(MaxLogins + 1)

LoginNext ==
    \E r \in LoginReqs :
        \/ FirstSpawn(r) \/ FirstUsername(r) \/ FirstPassword(r)
        \/ FirstOutcomeFails(r) \/ FirstCompleted(r) \/ FirstAwaitingCode(r)
        \/ \E token \in Tokens : LoginSecond(r, token)
        \/ SecondSend(r) \/ SecondExpect(r) \/ SecondClose(r) \/ SecondPop(r)

vars == <<jobs, current_job_id, run, procs, cancel, poll, hist, quota,
          login_children, children, session, login>>

\* the job subsystem
Next == JobNext

Spec == Init /\ [][Next]_vars

\* the job subsystem in runs of fewer requests whose children write more lines
InitFew ==
    /\ jobs = <<>>
    /\ current_job_id = None
    /\ run = [j \in JobIds |-> IdleRun]
    /\ procs = [j \in JobIds |-> NoProc]
    /\ cancel = [t \in Cancellers |-> IdleCancel]
    /\ poll = [p \in Pollers |-> IdlePoll]
    /\ hist = [submitted |-> {}, okCancel |-> {}, okNoId |-> {}, kept |-> {},
               sequential |-> TRUE]
    /\ quota = [requests |-> FewRequests, lines |-> MoreLines, argvs |-> MoreArgv]
    /\ login_children = <<>>
    /\ children = <<>>
    /\ session = [need_2fa |-> FALSE, login_token |-> None]
    /\ login = [r \in LoginReqs |-> IdleLogin]

SpecFew == InitFew /\ [][Next]_vars

\* one step of the background thread of job j
DriverStep(j) ==
    \/ RunEcho(j) \/ RunSpawn(j) \/ RunSetProc(j)
    \/ RunStreamLine(j) \/ RunWait(j)
    \/ RunCheck(j) \/ RunFinish(j)
    \/ RunExcept(j) \/ RunExceptFinish(j) \/ RunFinally(j)

\* the same runs, where a started background thread that can take a step is
\* not kept from it for ever (threading.Thread(...).start(): the interpreter
\* and the operating system schedule every runnable thread)
SpecFewFair == SpecFew /\ \A j \in JobIds : WF_vars(DriverStep(j))

\* the login subsystem; it shares no state with the jobs
NextLogin == LoginNext

SpecLogin == Init /\ [][NextLogin]_vars

\* ---------------------------------------------------------------- claims
\* C1: once a job's status is terminal (finished, error or canceled) it is never
\* written to a different terminal value, whatever the interleaving of the
\* job's driver with the cancel requests.
C1_TerminalWrittenOnce ==
    [][\A j \in Registered :
          jobs[j].status \in Terminal => jobs'[j].status = jobs[j].status]_vars

\* C2: a job for which cancel_job returned ok=true has status canceled and exit
\* code -9 when the call returns and in every later state.
C2_CanceledStays ==
    \A j \in hist.okCancel : jobs[j].status = "canceled" /\ jobs[j].rc = Some(-9)

\* C3: once a job's status is terminal its output and exit code no longer
\* change, so any two snapshots taken from then on agree.
C3_FrozenOnceTerminal ==
    [][\A j \in Registered :
          jobs[j].status \in Terminal =>
              /\ jobs'[j].output = jobs[j].output
              /\ jobs'[j].rc = jobs[j].rc]_vars

\* C4: a job's status never goes from a terminal value back to running.
C4_NeverBackToRunning ==
    [][\A j \in Registered :
          jobs[j].status \in Terminal => jobs'[j].status # "running"]_vars

\* C4 witness: both writers of the status have written it: the driver is done
\* and a cancel request has returned ok=true for the same job.
C4_Witness ==
    \E j \in Registered :
        run[j].pc = "done" /\ j \in hist.okCancel /\ jobs[j].status \in Terminal

\* C5: a cancel_job call that finds the job's process already exited returns
\* ok=false: no call that returns ok=true was made on an exited process.
C5_ExitedProcessRefused ==
    [][\A t \in Cancellers :
          cancel[t].pc = "finish" /\ cancel'[t].pc = "returned" =>
              ~cancel[t].procExited]_vars

\* C8: a current_job call made right after start_job returned J, with no other
\* start_job since, answers with job_id J, whatever J's driver has done meanwhile.
C8_CurrentIsLastSubmitted ==
    \A p \in Pollers :
        (/\ poll[p].pc = "returned"
         /\ poll[p].after # None
         /\ Cardinality(Registered) = poll[p].after[1])
        => poll[p].res = "job" /\ poll[p].jid = poll[p].after

\* C8 as amended: ... answers with job_id J provided J's driver had not yet run
\* its cleanup (the finally block that clears the pointer) when the call read
\* the pointer.
C8_CurrentIsLastSubmittedUntilCleanup ==
    \A p \in Pollers :
        (/\ poll[p].pc = "returned"
         /\ poll[p].after # None
         /\ poll[p].live
         /\ Cardinality(Registered) = poll[p].after[1])
        => poll[p].res = "job" /\ poll[p].jid = poll[p].after

\* C8 witness: the call answered with J although J had already reached a
\* terminal status (its driver was between finish and cleanup).
C8_Witness ==
    \E p \in Pollers :
        /\ poll[p].pc = "returned" /\ poll[p].live /\ poll[p].res = "job"
        /\ poll[p].jid = poll[p].after
        /\ Cardinality(Registered) = poll[p].after[1]
        /\ jobs[poll[p].jid[1]].status \in Terminal

\* the newest job whose start_job call has set the pointer
NewestPointed(j) ==
    /\ j \in Registered
    /\ run[j].pc # "registered"
    /\ \A k \in Registered : k > j => run[k].pc = "registered"

\* C9: a driver's cleanup clears the pointer if and only if the pointer names its
\* own job, and otherwise leaves it as it is; so, with start_job calls that do
\* not overlap, the pointer names the newest job until that job's own cleanup,
\* whichever older drivers exit meanwhile.
C9_CleanupClearsOwnPointerOnly ==
    /\ [][\A j \in JobIds :
            run[j].pc = "finally" /\ run'[j].pc = "done" =>
                /\ current_job_id = Some(j) => current_job_id' = None
                /\ current_job_id # Some(j) => current_job_id' = current_job_id]_vars
    /\ [](\A j \in JobIds :
            hist.sequential /\ NewestPointed(j) /\ run[j].pc # "done" =>
                current_job_id = Some(j))

\* C9 witness: an older driver ran its cleanup while the pointer named a newer
\* job, and the pointer still names the newer job.
C9_Witness ==
    \E j, k \in Registered :
        j < k /\ j \in hist.kept /\ run[j].pc = "done" /\ current_job_id = Some(k)

\* two jobs started back to back (calls not overlapping), the last two of the
\* registry, both running with a process handle
Second == Cardinality(Registered)
First == Second - 1
BackToBack ==
    /\ hist.sequential
    /\ Second >= 2
    /\ \A j \in {First, Second} : jobs[j].status = "running" /\ jobs[j].proc

\* C10: with two jobs started back to back and both still running with process
\* handles, current_job answers with the second; a cancel request without a job
\* id picks the second, passes cancel_job's guard, and each of its steps leaves
\* every other job (status, output, exit code, process) untouched; when it
\* returns ok=true it has set the second job to canceled with exit code -9.
C10_CancelNoIdHitsSecond ==
    [][/\ \A p \in Pollers :
            /\ (BackToBack /\ poll[p].pc = "idle" /\ poll'[p].pc # "idle") =>
                   poll'[p].pc = "lookup" /\ poll'[p].jid = Some(Second)
            /\ (poll[p].pc = "lookup" /\ poll'[p].pc = "returned" /\ poll[p].jid # None) =>
                   poll'[p].res = "job" /\ poll'[p].jid = poll[p].jid
       /\ \A t \in Cancellers :
            LET c == cancel[t]
                d == cancel'[t]
            IN  /\ (BackToBack /\ c.pc = "idle" /\ d.pc = "guard" /\ ~d.explicit) =>
                       d.job_id = Some(Second)
                /\ (BackToBack /\ c.pc = "guard" /\ d # c /\ c.job_id = Some(Second)) =>
                       d.pc = "marker"
                /\ (d # c /\ c.pc \notin {"idle", "guard"}) =>
                       /\ \A k \in JobIds \ {c.job_id[1]} : procs'[k] = procs[k]
                       /\ \A k \in Registered \ {c.job_id[1]} : jobs'[k] = jobs[k]
                /\ (c.pc = "finish" /\ d.pc = "returned") =>
                       /\ d.ret = Some(TRUE)
                       /\ jobs'[c.job_id[1]].status = "canceled"
                       /\ jobs'[c.job_id[1]].rc = Some(-9)]_vars

\* C10 witness: a cancel request without job id returned ok=true for the second
\* job while the first is still running, with only its command line in the output.
C10_Witness ==
    /\ hist.sequential
    /\ Second >= 2
    /\ Second \in hist.okNoId
    /\ jobs[First].status = "running" /\ jobs[First].proc /\ jobs[First].rc = None
    /\ jobs[First].output = <<EchoLine(run[First].args)>>

\* C6: for every token, the code is sent to the suspended process by at most
\* one /login request, and every other request with that token that has
\* returned got SessionExpired.
C6_SessionConsumedOnce ==
    \A r, q \in LoginReqs :
        (r # q /\ login[r].step = 2 /\ login[q].step = 2 /\ login[r].token = login[q].token
         /\ login[r].sent)
        => /\ ~login[q].sent
           /\ login[q].pc = "returned" => login[q].ret = "SessionExpired"

\* C7: when a first-step /login request has returned anything but AwaitingCode,
\* the child it spawned, if any, is closed.
C7_ChildClosedOnExit ==
    \A r \in LoginReqs :
        (login[r].pc = "returned" /\ login[r].step = 1 /\ login[r].ret # "AwaitingCode"
         /\ login[r].child # None)
        => ~children[login[r].child[1]].open

\* the entries of a job's output
Entries(j) == {jobs[j].output[i] : i \in 1..Len(jobs[j].output)}

\* C11: whenever a job's output is not empty, its first entry is the echoed
\* command line of that very job: no cancel marker, child line or error entry
\* comes before it.
C11_FirstEntryIsCommandLine ==
    \A j \in Registered :
        jobs[j].output # <<>> => jobs[j].output[1] = EchoLine(run[j].args)

\* two jobs started with different command lines, each with more output after
\* its own echo
C11_Witness ==
    \E j, k \in Registered :
        /\ run[j].args # run[k].args
        /\ Len(jobs[j].output) > 1 /\ jobs[j].output[1] = EchoLine(run[j].args)
        /\ Len(jobs[k].output) > 1 /\ jobs[k].output[1] = EchoLine(run[k].args)

\* C12: in every reachable state a job's status and exit code agree: the exit
\* code is absent exactly when the status is running, finished goes with 0,
\* error with a nonzero code and canceled with -9.
C12_StatusAgreesWithExitCode ==
    \A j \in Registered :
        /\ jobs[j].rc = None <=> jobs[j].status = "running"
        /\ jobs[j].status = "finished" => jobs[j].rc = Some(0)
        /\ jobs[j].status = "error" => jobs[j].rc # None /\ jobs[j].rc[1] # 0
        /\ jobs[j].status = "canceled" => jobs[j].rc = Some(-9)

\* one job canceled, another failed, a canceller and a driver having both
\* written
C12_Witness ==
    \E j, k \in Registered :
        /\ jobs[j].status = "canceled" /\ j \in hist.okCancel
        /\ jobs[k].status = "error" /\ run[k].pc = "done"

\* the calls cancel_job has to refuse: no id, an unknown id, a job that is
\* already terminal, a job without a process handle
NothingToCancel(id) ==
    \/ id = None
    \/ id[1] \notin Registered
    \/ jobs[id[1]].status \in Terminal
    \/ ~jobs[id[1]].proc

\* C13: cancel_job returns ok = false and changes nothing (no job's status,
\* output or exit code, and not the pointer) when the id is unknown, when no id
\* is given and the pointer is empty, when the job is already terminal and when
\* the job has no process handle yet.
C13_RefusedCancelChangesNothing ==
    [][\A t \in Cancellers :
          /\ cancel[t].pc = "idle" /\ cancel'[t] # cancel[t]
                => jobs' = jobs /\ current_job_id' = current_job_id
          /\ cancel[t].pc = "guard" /\ cancel'[t] # cancel[t]
                                    /\ NothingToCancel(cancel[t].job_id)
                => /\ cancel'[t] = Returned(FALSE)
                   /\ jobs' = jobs
                   /\ current_job_id' = current_job_id
                   /\ procs' = procs]_vars

\* a cancel has returned false with no cancel ever let through, while one job is
\* terminal and another has no process handle yet
C13_Witness ==
    /\ \E t \in Cancellers : cancel[t] = Returned(FALSE)
    /\ \A j \in Registered : CancelMarker \notin Entries(j)
    /\ \A t \in Cancellers : cancel[t].pc \in {"idle", "guard", "returned"}
    /\ \E j, k \in Registered : jobs[j].status \in Terminal /\ ~jobs[k].proc

\* the driver of job j went through its except handler
DriverFailed(j) == RunError \in Entries(j)

\* C14: a spawn failure or a runtime failure inside a job's driver does not
\* escape the driver: once the driver is done the job has status error and a
\* nonzero exit code, an error entry stands in its output after the command
\* line, and the pointer cleanup has run, so the pointer does not name the job.
C14_DriverFailureEndsInError ==
    \A j \in Registered :
        DriverFailed(j) /\ run[j].pc = "done"
            => /\ jobs[j].status = "error"
               /\ jobs[j].rc # None /\ jobs[j].rc[1] # 0
               /\ jobs[j].output[1] = EchoLine(run[j].args)
               /\ \E i \in 2..Len(jobs[j].output) : jobs[j].output[i] = RunError
               /\ current_job_id # Some(j)

\* C15: when begin_login reaches a code prompt it returns AwaitingCode with a
\* token that was not in the registry and is now registered to the process,
\* which is still open; and a submit_login_code that found that token has, when
\* it returns, removed the token from the registry and closed the process,
\* whether the code was accepted, the wait failed or the send raised.
C15_TokenRegisteredThenConsumed ==
    /\ [][\A r \in LoginReqs :
            login[r].pc = "outcome" /\ login'[r].ret = "AwaitingCode"
                => LET token == login'[r].token[1]
                       child == login[r].child[1]
                   IN /\ login'[r].pc = "returned"
                      /\ token \notin DOMAIN login_children
                      /\ token \in DOMAIN login_children'
                      /\ login_children'[token] = child
                      /\ children'[child].open]_vars
    /\ [](\A r \in LoginReqs :
            login[r].step = 2 /\ login[r].pc = "returned"
                              /\ login[r].ret # "SessionExpired"
                => /\ login[r].token[1] \notin DOMAIN login_children
                   /\ ~children[login[r].child[1]].open)

\* two submits of one token have returned, one after the code was accepted and
\* one whose send raised; the token is gone and the process closed
C15_Witness ==
    \E r, q \in LoginReqs :
        /\ login[r].step = 2 /\ login[r].pc = "returned" /\ login[r].ret = "Completed"
        /\ login[q].step = 2 /\ login[q].pc = "returned" /\ login[q].ret = "LoginError"
        /\ ~login[q].sent
        /\ login[q].token = login[r].token
        /\ login[r].token[1] \notin DOMAIN login_children
        /\ ~children[login[r].child[1]].open

\* C16: when begin_login sees the end of the output instead of a code prompt it
\* returns Completed, closes the process and leaves the registry as it was: no
\* step of that call adds or removes a token.
C16_CompletedWithoutToken ==
    [][\A r \in LoginReqs :
          /\ login'[r] # login[r] /\ login'[r].step = 1
                                  /\ login'[r].ret # "AwaitingCode"
                => login_children' = login_children
          /\ login[r].pc = "outcome" /\ login'[r].ret = "Completed"
                => /\ login'[r].pc = "returned"
                   /\ ~children'[login[r].child[1]].open
                   /\ login'[r].token = None]_vars

\* a begin_login has returned Completed while the token of an earlier one is
\* still registered
C16_Witness ==
    \E r \in LoginReqs :
        /\ login[r].step = 1 /\ login[r].pc = "returned" /\ login[r].ret = "Completed"
        /\ ~children[login[r].child[1]].open
        /\ DOMAIN login_children # {}
        /\ login[r].child[1] \notin DOMAIN login_children

\* C17: submit_login_code with a token that is not in the registry returns
\* SessionExpired and does nothing else: the registry, every process (open or
\* not, and what was sent to it), the session and every job are as before.
C17_UnknownTokenNoSideEffects ==
    [][\A r \in LoginReqs : \A token \in Tokens :
          /\ login[r].pc = "idle" /\ login'[r].step = 2
          /\ login'[r].token = Some(token)
          /\ token \notin DOMAIN login_children
          => /\ login'[r].pc = "returned" /\ login'[r].ret = "SessionExpired"
             /\ ~login'[r].sent
             /\ login_children' = login_children
             /\ children' = children
             /\ session' = session
             /\ UNCHANGED jobVars]_vars

\* a submit has been answered SessionExpired while another token is registered
\* to an open process that has been sent the user name and password and nothing
\* more
C17_Witness ==
    \E r \in LoginReqs :
        /\ login[r].step = 2 /\ login[r].pc = "returned"
        /\ login[r].ret = "SessionExpired"
        /\ \E t \in DOMAIN login_children :
              /\ t # login[r].token[1]
              /\ children[login_children[t]].open
              /\ children[login_children[t]].sent = <<"username", "password">>

\* C18: a job's process handle is cleared once its process has exited: in every
\* state after the driver has observed the exit of the process and finished,
\* the job holds no process handle.
C18_HandleClearedAfterExit ==
    \A j \in Registered :
        run[j].pc = "done" /\ procs[j].state = "exited" => ~jobs[j].proc

\* s is an initial part of t
IsPrefix(s, t) == Len(s) <= Len(t) /\ SubSeq(t, 1, Len(s)) = s

\* C19: a job's output is append-only and keeps the order: every earlier value
\* of the output is a prefix of every later one, the child's lines stand in it
\* in the order the child wrote them, and once the driver has recorded the exit
\* of the process every line the child wrote is in the output.
C19_OutputAppendOnlyInOrder ==
    /\ [][\A j \in Registered : IsPrefix(jobs[j].output, jobs'[j].output)]_vars
    /\ [](\A j \in Registered :
            /\ \A a, b \in 1..Len(jobs[j].output) :
                  /\ a < b
                  /\ jobs[j].output[a][1] = "line" /\ jobs[j].output[b][1] = "line"
                  => jobs[j].output[a][2] < jobs[j].output[b][2]
            /\ run[j].rc # None
                  => \A k \in 1..procs[j].written : ChildLine(k) \in Entries(j))

\* the driver has recorded the exit of a child whose two lines stand in the
\* output with the marker of a cancel between them
C19_Witness ==
    \E j \in Registered :
        /\ run[j].rc # None
        /\ procs[j].written = MoreLines
        /\ \E a, b, c \in 1..Len(jobs[j].output) :
              /\ a < b /\ b < c
              /\ jobs[j].output[a] = ChildLine(1)
              /\ jobs[j].output[b] = CancelMarker
              /\ jobs[j].output[c] = ChildLine(2)

\* a cancel_job call has gone past its guard for job j
CancelAccepted(j) ==
    \/ j \in Registered /\ CancelMarker \in Entries(j)
    \/ \E t \in Cancellers : cancel[t].pc = "marker" /\ cancel[t].job_id = Some(j)

\* job j has ended the way its process did
Settled(j) ==
    /\ j \in Registered
    /\ \/ jobs[j].status = "finished" /\ jobs[j].rc = Some(0)
       \/ jobs[j].status = "error" /\ jobs[j].rc # None /\ jobs[j].rc[1] # 0

\* C20: a job that is never canceled and whose process at some time exits, or
\* fails to spawn, at some time has status finished with exit code 0 or status
\* error with a nonzero exit code; and from then on the pointer at some time
\* no longer names that job.
C20_UncanceledJobSettles ==
    \A j \in JobIds :
        ([](~CancelAccepted(j)) /\ <>(procs[j].state = "exited" \/ run[j].pc = "except"))
            => (<>Settled(j) /\ [](Settled(j) => <>(current_job_id # Some(j))))

\* a job nobody canceled has ended finished with 0, its driver is done and the
\* pointer, which named it, is empty again
C20_Witness ==
    \E j \in Registered :
        /\ ~CancelAccepted(j)
        /\ run[j].pc = "done" /\ procs[j].state = "exited"
        /\ jobs[j].status = "finished" /\ jobs[j].rc = Some(0)
        /\ current_job_id = None
        /\ j \notin hist.kept

\* the cancel_job calls on job j that are past the append of their marker
PastMarker(j) ==
    {t \in Cancellers : /\ cancel[t].job_id = Some(j)
                        /\ cancel[t].pc \in {"terminate", "wait", "killmarker", "kill",
                                             "wait2", "finish", "except"}}

\* how many cancel markers stand in the output of job j
Markers(j) == Cardinality({i \in 1..Len(jobs[j].output) : jobs[j].output[i] = CancelMarker})

\* C21: within one cancel_job call the steps come in a fixed order: the cancel
\* marker is in the job's output before the terminate signal is sent; a kill is
\* sent only after terminate was sent and the grace wait ended with the process
\* still there, never when the process had exited within the grace period; and
\* the status is set to canceled only after the process has been waited for.
C21_CancelStepsInOrder ==
    /\ [][/\ \A j \in Registered :
              /\ procs'[j].term /\ ~procs[j].term
                    => \E t \in Cancellers : /\ cancel[t].pc = "terminate"
                                             /\ cancel[t].job_id = Some(j)
                                             /\ CancelMarker \in Entries(j)
              /\ procs'[j].kill /\ ~procs[j].kill
                    => /\ procs[j].term /\ procs[j].state = "alive"
                       /\ KillMarker \in Entries(j)
                       /\ \E t \in Cancellers : /\ cancel[t].pc = "kill"
                                                /\ cancel[t].job_id = Some(j)
              /\ jobs'[j].status = "canceled" /\ jobs[j].status # "canceled"
                    => /\ procs[j].state = "exited"
                       /\ \E t \in Cancellers : /\ cancel[t].pc = "finish"
                                                /\ cancel[t].job_id = Some(j)
                                                /\ cancel'[t] = Returned(TRUE)
          /\ \A t \in Cancellers :
              /\ cancel[t].pc = "wait" /\ cancel'[t] # cancel[t]
                    => cancel'[t].pc =
                          IF procs[cancel[t].job_id[1]].state = "exited"
                          THEN "finish" ELSE "killmarker"
              /\ cancel'[t].pc = "kill" /\ cancel[t].pc # "kill"
                    => cancel[t].pc = "killmarker"
              /\ cancel'[t].pc = "killmarker" /\ cancel[t].pc # "killmarker"
                    => cancel[t].pc = "wait"
              /\ cancel'[t].pc = "finish" /\ cancel[t].pc # "finish"
                    => cancel[t].pc \in {"wait", "wait2"}]_vars
    /\ [](\A j \in Registered :
            /\ Markers(j) >= Cardinality(PastMarker(j))
            /\ \A t \in PastMarker(j) :
                  cancel[t].pc = "finish" => procs[j].state = "exited")

\* a cancel has returned true after the process outlived the grace period and
\* was killed: both markers stand in the output and the process died of the kill
C21_Witness ==
    \E j \in Registered :
        /\ j \in hist.okCancel
        /\ jobs[j].status = "canceled"
        /\ \E a, b \in 1..Len(jobs[j].output) :
              a < b /\ jobs[j].output[a] = CancelMarker /\ jobs[j].output[b] = KillMarker
        /\ procs[j].returncode = Some(-SIGKILL)

\* C22: current_job and a cancel without id agree on the current job: whenever
\* current_job would report a job J that is running and has a process handle,
\* a cancel without id issued right then is aimed at J and is not refused; this
\* includes the state where the pointer is empty because a newer job has
\* exited while the older job J is still running.
C22_CancelNoIdHitsReportedJob ==
    \A J \in Registered :
        /\ CurrentJobReport(jobs, current_job_id) = Some(J)
        /\ jobs[J].status = "running" /\ jobs[J].proc
        => /\ EndpointJobId(None, current_job_id) = Some(J)
           /\ ~CancelRefused(jobs, EndpointJobId(None, current_job_id))

====
